---- MODULE Spec2Model ----
(***************************************************************************)
(* The exim mainlog cruncher.                                              *)
(*                                                                         *)
(* Spec    : the concurrent, sender-anchored variant (package main of      *)
(*           src/unnamed/part_000, lines 157-365): main, the goroutines    *)
(*           processFile, the channel sem, the mutex writeLock, the map    *)
(*           emails and the counters.                                      *)
(* SpecSeq : the non-concurrent, symmetric variant (src/main.go).          *)
(*                                                                         *)
(* Text is modelled as sequences of character codes, a log line as the     *)
(* sequence of its space-separated tokens, a compiled regular expression   *)
(* as a record [kind, ch].  Logging has no effect on the state and is left *)
(* out, together with logLineCount and remainingFiles, which only feed it. *)
(***************************************************************************)
EXTENDS Integers, Sequences, FiniteSets, TLC

\* ------------------------------------------------------------------ bounds
\* largest value of the -threads flag that is tried
MaxThreads == 2
\* lineCount at which a loop that never ends is cut off
MaxLineCount == 4
\* longest list of files filepath.Glob resolves to
MaxFiles == 3

\* ------------------------------------------------------------------- text
\* tokens of a log line
LE == <<60, 61>>
FOR == <<102, 111, 114>>
X == <<120>>

\* addresses: <<local part, domain>>
aT == <<97, 116>>
AT == <<65, 116>>
dT == <<100, 116>>
bO == <<98, 111>>
cO == <<99, 111>>
BO == <<66, 111>>
aU == <<97, 84>>
AU == <<65, 84>>
bU == <<98, 79>>

\* 'A' - 'a'
letterDiff == 65 - 97

toLower(r) == IF 65 <= r /\ r <= 90 THEN r - letterDiff ELSE r

\* mutant of MapLower: the bytes are left as they are
MapLowerNone(s) == s

\* bytes.Map(toLower, s)
MapLower(s) == [i \in 1..Len(s) |-> toLower(s[i])]

\* regexp.Compile of the three pattern shapes used:  .*   ^$   c$
ReAll == [kind |-> "all", ch |-> 0]
ReEmpty == [kind |-> "empty", ch |-> 0]
ReSuffix(c) == [kind |-> "suffix", ch |-> c]

\* (*Regexp).Match: an unanchored search of s
Match(re, s) ==
    CASE re.kind = "all" -> TRUE
      [] re.kind = "empty" -> Len(s) = 0
      [] re.kind = "suffix" -> Len(s) > 0 /\ s[Len(s)] = re.ch

\* lineMatch = `.+ <= (?P<from>\S+) .+ for (?P<to>\S+)` on a line of tokens:
\* the positions a token "<=" of a match can have (something before it) ...
LESites(line) == { i \in 2..Len(line) : line[i] = LE }

\* ... and, for "<=" at i, those of the token "for" (the sender and something
\* more before it, the recipient after it)
FORSites(line, i) == { j \in (i + 3)..(Len(line) - 1) : line[j] = FOR }

Max(S) == CHOOSE x \in S : \A y \in S : y <= x

\* lineMatch.FindSubmatch(line): <<>> for nil, else <<from, to>>; both .+ are
\* greedy, so the last "<=" that admits a match and then the last "for" win
FindSubmatch(line) ==
    LET is == { i \in LESites(line) : FORSites(line, i) # {} } IN
    IF is = {} THEN <<>>
    ELSE LET i == Max(is)
             j == Max(FORSites(line, i))
         IN <<line[i + 1], line[j + 1]>>

\* ------------------------------------------------------------------ input
\* log lines
Delivery(from, to) == <<X, LE, from, X, FOR, to>>
lnAB == Delivery(aT, bO)
lnAC == Delivery(aT, cO)
lnDB == Delivery(dT, bO)
lnUpper == Delivery(AT, BO)
lnBoth == Delivery(aT, dT)
lnOther == Delivery(bO, aT)
lnCase1 == Delivery(AU, bO)
lnCase2 == Delivery(aU, BO)
lnCase3 == Delivery(AU, BO)
lnShout == Delivery(AU, bU)
lnJunk == <<X, X>>
lnPart == <<X, LE, aT, X>>

\* A file on disk: gz (the name ends in .gz), openOk (os.Open succeeds), gzOk
\* (the gzip header is valid), lines (its newline-terminated lines), errAt
\* (the read that fails with an error other than io.EOF, 0 for none), tail
\* (the bytes after the last newline, <<>> for none).
File(gz, openOk, gzOk, lines, errAt, tail) ==
    [gz |-> gz, openOk |-> openOk, gzOk |-> gzOk, lines |-> lines,
     errAt |-> errAt, tail |-> tail]
Plain(lines) == File(FALSE, TRUE, TRUE, lines, 0, <<>>)

fEmpty == Plain(<<>>)
fAlice == Plain(<<lnAB, lnJunk>>)
fCarol == File(FALSE, TRUE, TRUE, <<lnAC>>, 0, lnDB)
fCut == File(FALSE, TRUE, TRUE, <<lnDB, lnAB>>, 2, <<>>)
fGone == File(FALSE, FALSE, TRUE, <<lnAB>>, 0, <<>>)
fBadGz == File(TRUE, TRUE, FALSE, <<lnAB>>, 0, <<>>)
fGoneGz == File(TRUE, FALSE, TRUE, <<lnAB>>, 0, <<>>)
fCutGz == File(TRUE, TRUE, TRUE, <<lnDB, lnAB>>, 2, <<>>)
fUpperGz == File(TRUE, TRUE, TRUE, <<lnUpper>>, 0, <<>>)
fMixed == Plain(<<lnOther, lnBoth>>)
fPart == Plain(<<lnPart, lnAC>>)
fCase == Plain(<<lnCase1, lnCase2>>)
fShout == Plain(<<lnShout, lnCase3>>)

\* a pattern regexp.Compile rejects
ReBad == [kind |-> "bad", ch |-> 0]
ReNil == [kind |-> "nil", ch |-> 0]

\* One run's command line and file system: the -email and -ignore patterns,
\* the files the glob resolves to, and whether -out can be created.
Run(email, ignore, files, outOk) ==
    [email |-> email, ignore |-> ignore, files |-> files, outOk |-> outOk]

AllRuns ==
    { Run(ReSuffix(116), ReEmpty, <<fAlice, fCarol>>, TRUE),
      Run(ReSuffix(116), ReEmpty, <<fCut, fAlice>>, TRUE),
      Run(ReSuffix(116), ReEmpty, <<fGone, fCarol>>, TRUE),
      Run(ReSuffix(116), ReEmpty, <<fBadGz, fCarol>>, TRUE),
      Run(ReSuffix(116), ReEmpty, <<fCarol, fGoneGz>>, TRUE),
      Run(ReSuffix(116), ReEmpty, <<fCutGz, fCarol>>, TRUE),
      Run(ReSuffix(116), ReSuffix(111), <<fMixed, fAlice>>, TRUE),
      Run(ReSuffix(116), ReSuffix(111), <<fAlice, fCarol>>, TRUE),
      Run(ReSuffix(116), ReEmpty, <<fMixed, fPart>>, TRUE),
      Run(ReAll, ReEmpty, <<fUpperGz, fAlice>>, TRUE),
      Run(ReSuffix(84), ReSuffix(79), <<fCase, fShout>>, TRUE),
      Run(ReAll, ReEmpty, <<fEmpty, fGone, fEmpty>>, TRUE),
      Run(ReSuffix(116), ReEmpty, <<fAlice, fCarol, fCut>>, TRUE),
      Run(ReAll, ReEmpty, <<fUpperGz, fBadGz, fAlice>>, TRUE),
      Run(ReAll, ReEmpty, <<fEmpty, fEmpty, fEmpty, fEmpty>>, TRUE),
      Run(ReAll, ReEmpty, <<>>, TRUE),
      Run(ReBad, ReEmpty, <<fAlice>>, TRUE),
      Run(ReAll, ReBad, <<fAlice>>, TRUE),
      Run(ReAll, ReEmpty, <<fAlice>>, FALSE) }

Runs == { r \in AllRuns : Len(r.files) <= MaxFiles }

\* ------------------------------------------------------------------ state
VARIABLES
    variant,     \* the program: "concurrent", or "plain" / "gzip" (no goroutines)
    args,        \* the run: flags and files (never changes)
    threads,     \* the -threads flag, cap(sem)
    exit,        \* "running", or how the process ended: "fatal", "panic", "done"
    mainpc,      \* where main is
    spawned,     \* files the range loop of main has started a goroutine for
    refill,      \* i of main's second loop
    sem,         \* len(sem)
    emailRegex, ignoreRegex,
    emails,      \* owner -> set of correspondents
    writeLock,   \* 0, or the worker that holds the mutex
    lineCount, matchCount, ignoreCount, fromCount,
    outFile,     \* "nil", "open", "closed"
    out,         \* the lines flushed to the output file
    wbuf,        \* the lines in the bufio.Writer, not yet flushed
    pc,          \* per worker: where processFile is
    inFile,      \* per worker: "nil", "open", "closed"
    reader,      \* per worker: "none", "plain", "gzip", "nilgz"
    nread,       \* per worker: lines ReadBytes has returned
    reg,         \* per worker: the value loaded by a counter's ++
    ok,          \* per worker: ok of  val, ok := emails[fromAsString]
    panicking,   \* per worker: a run-time panic is unwinding the goroutine
    hRecorded,   \* history: <<worker, owner, correspondent>> put into emails
    hIgnored,    \* history, per worker: executions of ignoreCount++
    hMatched,    \* history, per worker: executions of matchCount++
    hReadErr     \* history, per file: reads that failed otherwise than by io.EOF

vars == <<variant, args, threads, exit, mainpc, spawned, refill, sem, emailRegex,
          ignoreRegex, emails, writeLock, lineCount, matchCount, ignoreCount,
          fromCount, outFile, out, wbuf, pc, inFile, reader, nread, reg, ok,
          panicking, hRecorded, hIgnored, hMatched, hReadErr>>

mainVars == <<mainpc, spawned, refill, emailRegex, ignoreRegex, outFile, out, wbuf>>
workerVars == <<inFile, reader, nread, reg, ok, panicking>>
countVars == <<lineCount, matchCount, ignoreCount, fromCount>>
histVars == <<hRecorded, hIgnored, hMatched, hReadErr>>

Workers == 1..Len(args.files)
NoEmails == [o \in {} |-> {}]

Init ==
    /\ variant = "concurrent"
    /\ args \in Runs
    /\ threads \in 1..MaxThreads
    /\ exit = "running"
    /\ mainpc = "compileIgnore"
    /\ spawned = 0
    /\ refill = 0
    /\ sem = 0
    /\ emailRegex = ReNil
    /\ ignoreRegex = ReNil
    /\ emails = NoEmails
    /\ writeLock = 0
    /\ lineCount = 0
    /\ matchCount = 0
    /\ ignoreCount = 0
    /\ fromCount = 0
    /\ outFile = "nil"
    /\ out = <<>>
    /\ wbuf = <<>>
    /\ pc = [w \in Workers |-> "idle"]
    /\ inFile = [w \in Workers |-> "nil"]
    /\ reader = [w \in Workers |-> "none"]
    /\ nread = [w \in Workers |-> 0]
    /\ reg = [w \in Workers |-> 0]
    /\ ok = [w \in Workers |-> FALSE]
    /\ panicking = [w \in Workers |-> FALSE]
    /\ hRecorded = {}
    /\ hIgnored = [w \in Workers |-> 0]
    /\ hMatched = [w \in Workers |-> 0]
    /\ hReadErr = [w \in Workers |-> 0]

\* ------------------------------------------------------------------- main
\* regexp.Compile(*ignore); log.Fatal ends the process
CompileIgnore ==
    /\ exit = "running" /\ mainpc = "compileIgnore"
    /\ IF args.ignore.kind = "bad"
       THEN /\ exit' = "fatal"
            /\ UNCHANGED <<mainpc, ignoreRegex>>
       ELSE /\ ignoreRegex' = args.ignore
            /\ mainpc' = "compileEmail"
            /\ exit' = exit
    /\ UNCHANGED <<variant, args, threads, spawned, refill, sem, emailRegex, emails,
                   writeLock, countVars, outFile, out, wbuf, pc, workerVars, histVars>>

\* regexp.Compile(*email)
CompileEmail ==
    /\ exit = "running" /\ mainpc = "compileEmail"
    /\ IF args.email.kind = "bad"
       THEN /\ exit' = "fatal"
            /\ UNCHANGED <<mainpc, emailRegex>>
       ELSE /\ emailRegex' = args.email
            /\ mainpc' = "create"
            /\ exit' = exit
    /\ UNCHANGED <<variant, args, threads, spawned, refill, sem, ignoreRegex, emails,
                   writeLock, countVars, outFile, out, wbuf, pc, workerVars, histVars>>

\* mutant of CreateOut: the error of os.Create is not looked at
CreateOutNoCheck ==
    /\ exit = "running" /\ mainpc = "create"
    /\ outFile' = IF args.outOk THEN "open" ELSE "nil"
    /\ mainpc' = "send"
    /\ exit' = exit
    /\ UNCHANGED <<variant, args, threads, spawned, refill, sem, emailRegex,
                   ignoreRegex, emails, writeLock, countVars, out, wbuf, pc,
                   workerVars, histVars>>

\* os.Create(*outFileName), then sem = make(chan bool, *threads)
CreateOut ==
    /\ exit = "running" /\ mainpc = "create"
    /\ IF args.outOk
       THEN /\ outFile' = "open"
            /\ mainpc' = "send"
            /\ exit' = exit
       ELSE /\ exit' = "fatal"
            /\ UNCHANGED <<mainpc, outFile>>
    /\ UNCHANGED <<variant, args, threads, spawned, refill, sem, emailRegex,
                   ignoreRegex, emails, writeLock, countVars, out, wbuf, pc,
                   workerVars, histVars>>

\* mutant of CanSend: a channel that never fills
CanSendUnbounded == TRUE

\* a send on the buffered channel sem can proceed
CanSend == sem < threads

\* for _, fileName := range fileNames { sem <- true
Send ==
    /\ exit = "running" /\ mainpc = "send"
    /\ spawned < Len(args.files)
    /\ CanSend
    /\ sem' = sem + 1
    /\ mainpc' = "go"
    /\ UNCHANGED <<variant, args, threads, exit, spawned, refill, emailRegex,
                   ignoreRegex, emails, writeLock, countVars, outFile, out, wbuf,
                   pc, workerVars, histVars>>

\* go processFile(fileName) }
Go ==
    /\ exit = "running" /\ mainpc = "go"
    /\ pc' = [pc EXCEPT ![spawned + 1] = "open"]
    /\ spawned' = spawned + 1
    /\ mainpc' = "send"
    /\ UNCHANGED <<variant, args, threads, exit, refill, sem, emailRegex, ignoreRegex,
                   emails, writeLock, countVars, outFile, out, wbuf, workerVars,
                   histVars>>

\* the range loop is over
RangeDone ==
    /\ exit = "running" /\ mainpc = "send"
    /\ spawned = Len(args.files)
    /\ mainpc' = "refill"
    /\ refill' = 0
    /\ UNCHANGED <<variant, args, threads, exit, spawned, sem, emailRegex, ignoreRegex,
                   emails, writeLock, countVars, outFile, out, wbuf, pc, workerVars,
                   histVars>>

\* mutant of CapSem: the second loop stops one send short
CapSemShort == threads - 1

\* cap(sem)
CapSem == threads

\* for i := 0; i < cap(sem); i++ { sem <- true }
Refill ==
    /\ exit = "running" /\ mainpc = "refill"
    /\ IF refill < CapSem
       THEN /\ CanSend
            /\ sem' = sem + 1
            /\ refill' = refill + 1
            /\ mainpc' = mainpc
       ELSE /\ mainpc' = "write"
            /\ UNCHANGED <<sem, refill>>
    /\ UNCHANGED <<variant, args, threads, exit, spawned, emailRegex, ignoreRegex,
                   emails, writeLock, countVars, outFile, out, wbuf, pc, workerVars,
                   histVars>>

\* the owners the range over emails has been at: those with a line in the
\* output or in the writer
Written == { (out \o wbuf)[i][1] : i \in 1..(Len(out) + Len(wbuf)) }

\* mutant of Flush: the buffer is left as it is
FlushNothing(o, b) == <<o, b>>

\* writer.Flush() with b in the writer and o in the file: <<file, writer>>
Flush(o, b) == <<o \o b, <<>>>>

\* the sequences that hold each element of S once
RECURSIVE Orders(_)
Orders(S) ==
    IF S = {} THEN { <<>> }
    ELSE UNION { { <<x>> \o t : t \in Orders(S \ {x}) } : x \in S }

\* for us, theirEmails := range emails { WriteString(us); for them := range
\* theirEmails { WriteByte(','); WriteString(them) }; WriteByte('\n'); Flush() }
WriteOwner ==
    /\ exit = "running" /\ mainpc = "write"
    /\ \E us \in (DOMAIN emails) \ Written :
         \E them \in Orders(emails[us]) :
            LET f == Flush(out, Append(wbuf, <<us>> \o them)) IN
            out' = f[1] /\ wbuf' = f[2]
    /\ UNCHANGED <<variant, args, threads, exit, mainpc, spawned, refill, sem,
                   emailRegex, ignoreRegex, emails, writeLock, countVars,
                   outFile, pc, workerVars, histVars>>

\* the range over emails is over; main returns, the deferred outFile.Close()
\* runs and the process ends
Finish ==
    /\ exit = "running" /\ mainpc = "write"
    /\ (DOMAIN emails) \ Written = {}
    /\ mainpc' = "done"
    /\ outFile' = "closed"
    /\ exit' = "done"
    /\ UNCHANGED <<variant, args, threads, spawned, refill, sem, emailRegex,
                   ignoreRegex, emails, writeLock, countVars, out, wbuf, pc,
                   workerVars, histVars>>

\* ------------------------------------------------------------ processFile
file(w) == args.files[w]

\* inFile, err := os.Open(fileName): an error is logged and the function
\* goes on with a nil *os.File
Open(w) ==
    /\ exit = "running" /\ pc[w] = "open"
    /\ inFile' = [inFile EXCEPT ![w] = IF file(w).openOk THEN "open" ELSE "nil"]
    /\ pc' = [pc EXCEPT ![w] = "mkreader"]
    /\ UNCHANGED <<variant, args, threads, exit, mainVars, sem, emails, writeLock,
                   countVars, reader, nread, reg, ok, panicking, histVars>>

\* gzip.NewReader(inFile) returns (nil, err) when the header cannot be read
\* (nil file, or not a gzip stream)
NewGzReader(w) ==
    IF inFile[w] = "open" /\ file(w).gzOk THEN "gzip" ELSE "nilgz"

\* if filepath.Ext(fileName) == ".gz" { gzReader, err := gzip.NewReader(inFile)
\* ...; reader = bufio.NewReader(gzReader) } else { reader =
\* bufio.NewReader(inFile) }: an error is logged and the function goes on
MkReader(w) ==
    /\ exit = "running" /\ pc[w] = "mkreader"
    /\ reader' = [reader EXCEPT ![w] =
                    IF file(w).gz THEN NewGzReader(w) ELSE "plain"]
    /\ pc' = [pc EXCEPT ![w] = "read"]
    /\ UNCHANGED <<variant, args, threads, exit, mainVars, sem, emails, writeLock,
                   countVars, inFile, nread, reg, ok, panicking, histVars>>

\* mutant of ReadBytes: the bytes after the last newline come as a line
ReadBytesTailLine(w) ==
    IF inFile[w] # "open" THEN "err"
    ELSE IF file(w).errAt = nread[w] + 1 THEN "err"
    ELSE IF nread[w] < Len(file(w).lines) THEN "line"
    ELSE IF nread[w] = Len(file(w).lines) /\ file(w).tail # <<>> THEN "line"
    ELSE "eof"

\* reader.ReadBytes('\n'): "line" (a line that ends in a newline), "eof"
\* (io.EOF, with the bytes after the last newline), "err" (any other error:
\* a read of a nil file, a failing read, a corrupt gzip stream)
ReadBytes(w) ==
    IF inFile[w] # "open" THEN "err"
    ELSE IF file(w).errAt = nread[w] + 1 THEN "err"
    ELSE IF nread[w] < Len(file(w).lines) THEN "line"
    ELSE "eof"

\* the bytes ReadBytes returns with "line" or "eof": the next line, or what is
\* left after the last newline
ReadData(w) ==
    IF nread[w] < Len(file(w).lines) THEN file(w).lines[nread[w] + 1]
    ELSE file(w).tail

\* mutant of Classify: the test of the recipient is left out
ClassifyNoIgnore(from, to) ==
    IF ~Match(emailRegex, from) THEN "ignore" ELSE "record"

\* the classification of a pair: "ignore" (ignoreCount++; continue) or "record"
Classify(from, to) ==
    IF ~Match(emailRegex, from) THEN "ignore"
    ELSE IF Match(ignoreRegex, to) THEN "ignore"
    ELSE "record"

\* mutant of AfterLine: a line without a pair goes to ignoreCount++
AfterLineIgnoreNil(line) ==
    LET matches == FindSubmatch(line) IN
    IF matches = <<>> THEN "ignLoad"
    ELSE IF Classify(matches[1], matches[2]) = "ignore" THEN "ignLoad"
    ELSE "lock"

\* where the loop body goes for a line that was read
AfterLine(line) ==
    LET matches == FindSubmatch(line) IN
    IF matches = <<>> THEN "lineLoad"
    ELSE IF Classify(matches[1], matches[2]) = "ignore" THEN "ignLoad"
    ELSE "lock"

\* the line the worker is working on
curLine(w) ==
    IF nread[w] <= Len(file(w).lines) THEN file(w).lines[nread[w]]
    ELSE file(w).tail
curFrom(w) == FindSubmatch(curLine(w))[1]
curTo(w) == FindSubmatch(curLine(w))[2]

\* line, err := reader.ReadBytes('\n') and the matching of the line.  A read
\* through the nil *gzip.Reader dereferences it: a run-time panic.
Read(w) ==
    /\ exit = "running" /\ pc[w] = "read"
    /\ IF reader[w] = "nilgz"
       THEN /\ panicking' = [panicking EXCEPT ![w] = TRUE]
            /\ pc' = [pc EXCEPT ![w] = "close"]
            /\ UNCHANGED <<nread, hReadErr>>
       ELSE CASE ReadBytes(w) = "line" ->
                   /\ nread' = [nread EXCEPT ![w] = @ + 1]
                   /\ pc' = [pc EXCEPT ![w] = AfterLine(ReadData(w))]
                   /\ UNCHANGED <<panicking, hReadErr>>
              [] ReadBytes(w) = "eof" ->
                   /\ pc' = [pc EXCEPT ![w] = "close"]
                   /\ UNCHANGED <<nread, panicking, hReadErr>>
              [] ReadBytes(w) = "err" ->
                   /\ pc' = [pc EXCEPT ![w] = "close"]
                   /\ hReadErr' = [hReadErr EXCEPT ![w] = @ + 1]
                   /\ UNCHANGED <<nread, panicking>>
    /\ UNCHANGED <<variant, args, threads, exit, mainVars, sem, emails, writeLock,
                   countVars, inFile, reader, reg, ok, hRecorded, hIgnored,
                   hMatched>>

\* ignoreCount++ is a load and a store, with no lock held
IgnLoad(w) ==
    /\ exit = "running" /\ pc[w] = "ignLoad"
    /\ reg' = [reg EXCEPT ![w] = ignoreCount]
    /\ pc' = [pc EXCEPT ![w] = "ignStore"]
    /\ UNCHANGED <<variant, args, threads, exit, mainVars, sem, emails, writeLock,
                   countVars, inFile, reader, nread, ok, panicking, histVars>>

\* ... ; continue
IgnStore(w) ==
    /\ exit = "running" /\ pc[w] = "ignStore"
    /\ ignoreCount' = reg[w] + 1
    /\ hIgnored' = [hIgnored EXCEPT ![w] = @ + 1]
    /\ pc' = [pc EXCEPT ![w] = "read"]
    /\ UNCHANGED <<variant, args, threads, exit, mainVars, sem, emails, writeLock,
                   lineCount, matchCount, fromCount, workerVars, hRecorded,
                   hMatched, hReadErr>>

\* mutant of CanLock: a mutex that excludes nobody
CanLockAlways == TRUE

\* writeLock.Lock() can proceed
CanLock == writeLock = 0

\* fromAsString := string(bytes.Map(toLower, from)); toAsString likewise;
\* writeLock.Lock(); val, ok := emails[fromAsString]
Lock(w) ==
    /\ exit = "running" /\ pc[w] = "lock"
    /\ CanLock
    /\ writeLock' = w
    /\ ok' = [ok EXCEPT ![w] = MapLower(curFrom(w)) \in DOMAIN emails]
    /\ pc' = [pc EXCEPT ![w] = "insert"]
    /\ UNCHANGED <<variant, args, threads, exit, mainVars, sem, emails, countVars,
                   inFile, reader, nread, reg, panicking, histVars>>

\* mutant of Put: the entry of from is always made anew
PutReplace(m, from, to, fresh) ==
    [o \in (DOMAIN m) \cup {from} |-> IF o = from THEN {to} ELSE m[o]]

\* emails with m[from][to] = true, the entry of from made or replaced if fresh
Put(m, from, to, fresh) ==
    [o \in (DOMAIN m) \cup {from} |->
        IF o = from
        THEN (IF fresh \/ from \notin DOMAIN m THEN {to} ELSE m[from] \cup {to})
        ELSE m[o]]

\* mutant of Insert: writeLock.Unlock() is left out
InsertKeepsLock(w) ==
    /\ exit = "running" /\ pc[w] = "insert"
    /\ emails' = Put(emails, MapLower(curFrom(w)), MapLower(curTo(w)), ~ok[w])
    /\ fromCount' = IF ok[w] THEN fromCount ELSE fromCount + 1
    /\ writeLock' = writeLock
    /\ hRecorded' = hRecorded \cup
                      {<<w, MapLower(curFrom(w)), MapLower(curTo(w))>>}
    /\ pc' = [pc EXCEPT ![w] = "matchLoad"]
    /\ UNCHANGED <<variant, args, threads, exit, mainVars, sem, lineCount, matchCount,
                   ignoreCount, workerVars, hIgnored, hMatched, hReadErr>>

\* mutant of Insert: fromCount++ whether or not the owner was found
InsertCountsAlways(w) ==
    /\ exit = "running" /\ pc[w] = "insert"
    /\ emails' = Put(emails, MapLower(curFrom(w)), MapLower(curTo(w)), ~ok[w])
    /\ fromCount' = fromCount + 1
    /\ writeLock' = 0
    /\ hRecorded' = hRecorded \cup
                      {<<w, MapLower(curFrom(w)), MapLower(curTo(w))>>}
    /\ pc' = [pc EXCEPT ![w] = "matchLoad"]
    /\ UNCHANGED <<variant, args, threads, exit, mainVars, sem, lineCount, matchCount,
                   ignoreCount, workerVars, hIgnored, hMatched, hReadErr>>

\* if ok { val[toAsString] = true } else { fromCount++;
\* emails[fromAsString] = map[string]bool{toAsString: true} };
\* writeLock.Unlock()
Insert(w) ==
    /\ exit = "running" /\ pc[w] = "insert"
    /\ emails' = Put(emails, MapLower(curFrom(w)), MapLower(curTo(w)), ~ok[w])
    /\ fromCount' = IF ok[w] THEN fromCount ELSE fromCount + 1
    /\ writeLock' = 0
    /\ hRecorded' = hRecorded \cup
                      {<<w, MapLower(curFrom(w)), MapLower(curTo(w))>>}
    /\ pc' = [pc EXCEPT ![w] = "matchLoad"]
    /\ UNCHANGED <<variant, args, threads, exit, mainVars, sem, lineCount, matchCount,
                   ignoreCount, workerVars, hIgnored, hMatched, hReadErr>>

\* matchCount++ is a load and a store, with no lock held
MatchLoad(w) ==
    /\ exit = "running" /\ pc[w] = "matchLoad"
    /\ reg' = [reg EXCEPT ![w] = matchCount]
    /\ pc' = [pc EXCEPT ![w] = "matchStore"]
    /\ UNCHANGED <<variant, args, threads, exit, mainVars, sem, emails, writeLock,
                   countVars, inFile, reader, nread, ok, panicking, histVars>>

MatchStore(w) ==
    /\ exit = "running" /\ pc[w] = "matchStore"
    /\ matchCount' = reg[w] + 1
    /\ hMatched' = [hMatched EXCEPT ![w] = @ + 1]
    /\ pc' = [pc EXCEPT ![w] = "lineLoad"]
    /\ UNCHANGED <<variant, args, threads, exit, mainVars, sem, emails, writeLock,
                   lineCount, ignoreCount, fromCount, workerVars, hRecorded,
                   hIgnored, hReadErr>>

\* lineCount++ is a load and a store, with no lock held
LineLoad(w) ==
    /\ exit = "running" /\ pc[w] = "lineLoad"
    /\ reg' = [reg EXCEPT ![w] = lineCount]
    /\ pc' = [pc EXCEPT ![w] = "lineStore"]
    /\ UNCHANGED <<variant, args, threads, exit, mainVars, sem, emails, writeLock,
                   countVars, inFile, reader, nread, ok, panicking, histVars>>

\* ... ; logLineCount-- ; and round the loop
LineStore(w) ==
    /\ exit = "running" /\ pc[w] = "lineStore"
    /\ lineCount' = reg[w] + 1
    /\ pc' = [pc EXCEPT ![w] = "read"]
    /\ UNCHANGED <<variant, args, threads, exit, mainVars, sem, emails, writeLock,
                   matchCount, ignoreCount, fromCount, workerVars, histVars>>

\* the deferred gzReader.Close() and inFile.Close(), last deferred first;
\* Close on the nil *gzip.Reader dereferences it: a run-time panic, and the
\* deferred calls that are left still run
Close(w) ==
    /\ exit = "running" /\ pc[w] = "close"
    /\ panicking' = [panicking EXCEPT ![w] = @ \/ reader[w] = "nilgz"]
    /\ inFile' = [inFile EXCEPT ![w] = IF @ = "open" THEN "closed" ELSE @]
    /\ pc' = [pc EXCEPT ![w] = "release"]
    /\ UNCHANGED <<variant, args, threads, exit, mainVars, sem, emails, writeLock,
                   countVars, reader, nread, reg, ok, histVars>>

\* the deferred func() { <-sem }(), the first deferred and the last to run;
\* after it the goroutine is over, or the panic reaches the top of its stack
Release(w) ==
    /\ exit = "running" /\ pc[w] = "release"
    /\ sem > 0
    /\ sem' = sem - 1
    /\ pc' = [pc EXCEPT ![w] = IF panicking[w] THEN "dying" ELSE "done"]
    /\ UNCHANGED <<variant, args, threads, exit, mainVars, emails, writeLock,
                   countVars, workerVars, histVars>>

\* a panic no deferred call recovers ends the whole process
Crash(w) ==
    /\ exit = "running" /\ pc[w] = "dying"
    /\ exit' = "panic"
    /\ UNCHANGED <<variant, args, threads, mainVars, sem, emails, writeLock,
                   countVars, pc, workerVars, histVars>>

Next ==
    \/ CompileIgnore \/ CompileEmail \/ CreateOut
    \/ Send \/ Go \/ RangeDone \/ Refill
    \/ WriteOwner \/ Finish
    \/ \E w \in Workers : Open(w)
    \/ \E w \in Workers : MkReader(w)
    \/ \E w \in Workers : Read(w)
    \/ \E w \in Workers : IgnLoad(w)
    \/ \E w \in Workers : IgnStore(w)
    \/ \E w \in Workers : Lock(w)
    \/ \E w \in Workers : Insert(w)
    \/ \E w \in Workers : MatchLoad(w)
    \/ \E w \in Workers : MatchStore(w)
    \/ \E w \in Workers : LineLoad(w)
    \/ \E w \in Workers : LineStore(w)
    \/ \E w \in Workers : Close(w)
    \/ \E w \in Workers : Release(w)
    \/ \E w \in Workers : Crash(w)

Spec == Init /\ [][Next]_vars

\* ------------------------------------------------ the programs without goroutines
\* "plain" is src/main.go; "gzip" is the first package of src/unnamed/part_000
\* (lines 1-155), which adds the .gz reader and  continue FileLoop.  Both keep
\* the map and the counters in locals of main, read with ReadString, do not
\* fold case and have no -ignore and no -threads flag.  File i of the range
\* loop uses entry i of inFile, reader, nread and the histories.

\* to := matches[1]; from := matches[2]; toIsMatch := emailRegex.MatchString(to);
\* fromIsMatch := emailRegex.MatchString(from): "ignore" when both match,
\* else <<owner, correspondent>>
ClassifySymAnyMatch(m1, m2) ==
    IF Match(emailRegex, m1) \/ Match(emailRegex, m2) THEN "ignore"
    ELSE <<m2, m1>>

ClassifySym(m1, m2) ==
    IF Match(emailRegex, m1) /\ Match(emailRegex, m2) THEN "ignore"
    ELSE IF Match(emailRegex, m1) THEN <<m1, m2>>
    ELSE <<m2, m1>>

\* regexp.Compile(*email); filepath.Glob
SCompile ==
    /\ exit = "running" /\ mainpc = "s_compile"
    /\ IF args.email.kind = "bad"
       THEN /\ exit' = "fatal"
            /\ UNCHANGED <<mainpc, emailRegex>>
       ELSE /\ emailRegex' = args.email
            /\ mainpc' = "s_create"
            /\ exit' = exit
    /\ UNCHANGED <<variant, args, threads, spawned, refill, sem, ignoreRegex,
                   emails, writeLock, countVars, outFile, out, wbuf, pc, workerVars,
                   histVars>>

\* os.Create(*outFileName)
SCreate ==
    /\ exit = "running" /\ mainpc = "s_create"
    /\ IF args.outOk
       THEN /\ outFile' = "open"
            /\ mainpc' = "s_range"
            /\ exit' = exit
       ELSE /\ exit' = "fatal"
            /\ UNCHANGED <<mainpc, outFile>>
    /\ UNCHANGED <<variant, args, threads, spawned, refill, sem, emailRegex,
                   ignoreRegex, emails, writeLock, countVars, out, wbuf, pc,
                   workerVars, histVars>>

\* for _, fileName := range fileNames { inFile, err := os.Open(fileName);
\* defer inFile.Close(): an error is logged and the loop body goes on
SOpen ==
    /\ exit = "running" /\ mainpc = "s_range"
    /\ IF spawned < Len(args.files)
       THEN /\ spawned' = spawned + 1
            /\ inFile' = [inFile EXCEPT ![spawned + 1] =
                            IF file(spawned + 1).openOk THEN "open" ELSE "nil"]
            /\ mainpc' = "s_reader"
       ELSE /\ mainpc' = "s_write"
            /\ UNCHANGED <<spawned, inFile>>
    /\ UNCHANGED <<variant, args, threads, exit, refill, sem, emailRegex,
                   ignoreRegex, emails, writeLock, countVars, outFile, out, wbuf,
                   pc, reader, nread, reg, ok, panicking, histVars>>

\* "gzip": the reader as in processFile; "plain": reader :=
\* bufio.NewReader(inFile)
SMkReader ==
    /\ exit = "running" /\ mainpc = "s_reader"
    /\ reader' = [reader EXCEPT ![spawned] =
                    IF variant = "gzip" /\ file(spawned).gz
                    THEN NewGzReader(spawned) ELSE "plain"]
    /\ mainpc' = "s_read"
    /\ UNCHANGED <<variant, args, threads, exit, spawned, refill, sem,
                   emailRegex, ignoreRegex, emails, writeLock, countVars,
                   outFile, out, wbuf, pc, inFile, nread, reg, ok, panicking,
                   histVars>>

\* the body of  if matches != nil { ... }  and lineCount++ for one line
SProcess(i, line) ==
    LET matches == FindSubmatch(line)
        c == ClassifySym(matches[1], matches[2])
    IN IF matches = <<>>
       THEN /\ lineCount' = lineCount + 1
            /\ UNCHANGED <<emails, matchCount, ignoreCount, hRecorded,
                           hIgnored, hMatched>>
       ELSE IF c = "ignore"
       THEN /\ ignoreCount' = ignoreCount + 1
            /\ hIgnored' = [hIgnored EXCEPT ![i] = @ + 1]
            /\ UNCHANGED <<emails, matchCount, lineCount, hRecorded, hMatched>>
       ELSE /\ matchCount' = matchCount + 1
            /\ emails' = Put(emails, c[1], c[2], FALSE)
            /\ lineCount' = lineCount + 1
            /\ hMatched' = [hMatched EXCEPT ![i] = @ + 1]
            /\ hRecorded' = hRecorded \cup {<<i, c[1], c[2]>>}
            /\ ignoreCount' = ignoreCount
            /\ hIgnored' = hIgnored

\* one round of the inner loop: line, err := reader.ReadString('\n') and what
\* follows it.  io.EOF breaks.  On another error "gzip" does  continue
\* FileLoop ; "plain" only logs it and goes on with what was read (no whole
\* line, so no match), and round the loop again.  A read through the nil
\* *gzip.Reader panics and ends the process.
SLine ==
    /\ exit = "running" /\ mainpc = "s_read"
    /\ LET i == spawned IN
       IF reader[i] = "nilgz"
       THEN /\ exit' = "panic"
            /\ panicking' = [panicking EXCEPT ![i] = TRUE]
            /\ UNCHANGED <<mainpc, nread, emails, countVars, histVars>>
       ELSE /\ UNCHANGED <<exit, panicking>>
            /\ CASE ReadBytes(i) = "line" ->
                     /\ nread' = [nread EXCEPT ![i] = @ + 1]
                     /\ SProcess(i, ReadData(i))
                     /\ UNCHANGED <<mainpc, fromCount, hReadErr>>
                 [] ReadBytes(i) = "eof" ->
                     /\ mainpc' = "s_range"
                     /\ UNCHANGED <<nread, emails, countVars, histVars>>
                 [] ReadBytes(i) = "err" /\ variant = "gzip" ->
                     /\ mainpc' = "s_range"
                     /\ hReadErr' = [hReadErr EXCEPT ![i] = @ + 1]
                     /\ UNCHANGED <<nread, emails, countVars, hRecorded,
                                    hIgnored, hMatched>>
                 [] ReadBytes(i) = "err" /\ variant = "plain" ->
                     /\ lineCount < MaxLineCount
                     /\ SProcess(i, <<>>)
                     /\ hReadErr' = [hReadErr EXCEPT ![i] = @ + 1]
                     /\ UNCHANGED <<mainpc, nread, fromCount>>
    /\ UNCHANGED <<variant, args, threads, spawned, refill, sem, emailRegex,
                   ignoreRegex, writeLock, outFile, out, wbuf, pc, inFile, reader,
                   reg, ok>>

\* the range over emails, as in the concurrent program
SWriteOwner ==
    /\ exit = "running" /\ mainpc = "s_write"
    /\ \E us \in (DOMAIN emails) \ Written :
         \E them \in Orders(emails[us]) :
            LET f == Flush(out, Append(wbuf, <<us>> \o them)) IN
            out' = f[1] /\ wbuf' = f[2]
    /\ UNCHANGED <<variant, args, threads, exit, mainpc, spawned, refill, sem,
                   emailRegex, ignoreRegex, emails, writeLock, countVars,
                   outFile, pc, workerVars, histVars>>

\* main returns: the deferred Close of every file run, the process ends
SFinish ==
    /\ exit = "running" /\ mainpc = "s_write"
    /\ (DOMAIN emails) \ Written = {}
    /\ mainpc' = "done"
    /\ outFile' = "closed"
    /\ inFile' = [w \in Workers |-> IF inFile[w] = "open" THEN "closed" ELSE inFile[w]]
    /\ exit' = "done"
    /\ UNCHANGED <<variant, args, threads, spawned, refill, sem, emailRegex,
                   ignoreRegex, emails, writeLock, countVars, out, wbuf, pc, reader,
                   nread, reg, ok, panicking, histVars>>

\* the runs of the programs without goroutines: no -ignore flag, and "plain"
\* is given no .gz file
SeqRuns(v) ==
    { r \in Runs : /\ r.ignore = ReEmpty
                   /\ v = "plain" => \A i \in 1..Len(r.files) : ~r.files[i].gz }

InitSeq ==
    /\ variant \in {"plain", "gzip"}
    /\ args \in SeqRuns(variant)
    /\ threads = 1
    /\ exit = "running"
    /\ mainpc = "s_compile"
    /\ spawned = 0
    /\ refill = 0
    /\ sem = 0
    /\ emailRegex = ReNil
    /\ ignoreRegex = ReNil
    /\ emails = NoEmails
    /\ writeLock = 0
    /\ lineCount = 0
    /\ matchCount = 0
    /\ ignoreCount = 0
    /\ fromCount = 0
    /\ outFile = "nil"
    /\ out = <<>>
    /\ wbuf = <<>>
    /\ pc = [w \in Workers |-> "idle"]
    /\ inFile = [w \in Workers |-> "nil"]
    /\ reader = [w \in Workers |-> "none"]
    /\ nread = [w \in Workers |-> 0]
    /\ reg = [w \in Workers |-> 0]
    /\ ok = [w \in Workers |-> FALSE]
    /\ panicking = [w \in Workers |-> FALSE]
    /\ hRecorded = {}
    /\ hIgnored = [w \in Workers |-> 0]
    /\ hMatched = [w \in Workers |-> 0]
    /\ hReadErr = [w \in Workers |-> 0]

NextSeq ==
    \/ SCompile \/ SCreate \/ SOpen \/ SMkReader \/ SLine
    \/ SWriteOwner \/ SFinish

SpecSeq == InitSeq /\ [][NextSeq]_vars

\* the three programs side by side
InitAll == Init \/ InitSeq
NextAll == Next \/ NextSeq
SpecAll == InitAll /\ [][NextAll]_vars

\* ----------------------------------------------------------------- claims
\* a worker that was started and has not yet taken its token back from sem
Active(w) == pc[w] \notin {"idle", "done", "dying"}
\* a worker that is not in the middle of a line
AtRest(w) == pc[w] \in {"idle", "read", "close", "release", "done", "dying"}
AllDone == \A w \in Workers : pc[w] = "done"

HasPair(line) == FindSubmatch(line) # <<>>
\* the sender-anchored policy, on the patterns of the command line
Disposition(line) ==
    LET m == FindSubmatch(line) IN
    IF m = <<>> THEN "none"
    ELSE IF ~Match(args.email, m[1]) THEN "drop"
    ELSE IF Match(args.ignore, m[2]) THEN "drop"
    ELSE "keep"
Kept(line) == Disposition(line) = "keep"
Dropped(line) == Disposition(line) = "drop"
Folded(line) ==
    LET m == FindSubmatch(line) IN <<MapLower(m[1]), MapLower(m[2])>>

RECURSIVE SumTo(_, _)
SumTo(f, n) == IF n = 0 THEN 0 ELSE f[n] + SumTo(f, n - 1)

\* C1: in every reachable state at most K workers are active (started and
\* not yet past the release of their slot) and at most K input files are
\* open; a file is open only while its worker holds a slot.
C1_AtMostKActive ==
    /\ Cardinality({w \in Workers : Active(w)}) <= threads
    /\ Cardinality({w \in Workers : inFile[w] = "open"}) <= threads
    /\ \A w \in Workers : inFile[w] = "open" => Active(w)

\* the pool is full: K files open, main blocked in sem <- true, a file waiting
C1_Witness ==
    /\ threads = 2
    /\ Cardinality({w \in Workers : inFile[w] = "open"}) = 2
    /\ mainpc = "send" /\ sem = threads
    /\ spawned < Len(args.files)

\* C2: once main is past its second loop (it serializes the map), every
\* worker was started and has taken its token back: none is still running,
\* none holds the lock, none can still record.
C2_OutputAfterWorkers ==
    mainpc \in {"write", "done"} =>
        /\ \A w \in Workers : pc[w] \in {"done", "dying"}
        /\ writeLock = 0

\* main writes the map of two files with fewer slots than files
C2_Witness ==
    /\ mainpc = "write" /\ Len(out) = 1
    /\ threads < Len(args.files)
    /\ Cardinality(hRecorded) >= 2

\* C3: once all workers have finished, the owners of the map are exactly
\* the owners some worker recorded a pair for, and each owner's set is the
\* union of the correspondents the workers recorded for it.
C3_NoLostUpdates ==
    AllDone =>
        /\ DOMAIN emails = { r[2] : r \in hRecorded }
        /\ \A o \in DOMAIN emails :
              emails[o] = { r[3] : r \in { q \in hRecorded : q[2] = o } }

\* two files gave the same owner one correspondent each, with two slots
C3_Witness ==
    /\ AllDone /\ threads = 2
    /\ <<1, aT, bO>> \in hRecorded /\ <<2, aT, cO>> \in hRecorded
    /\ emails[aT] = {bO, cO}

\* C4: whatever the outcomes of the files, a run that got past its startup
\* does not end before main has reached the output phase.
C4_RunReachesOutput ==
    exit \in {"panic", "done"} => mainpc \in {"write", "done"}

\* C5: when the run is over, every resolved file was handed to a worker.
C5_EveryFileHanded ==
    exit \in {"panic", "done"} =>
        /\ spawned = Len(args.files)
        /\ \A w \in Workers : pc[w] # "idle"

\* the lines a worker gets through when nothing but its own file stops it
Expect(f) ==
    IF ~f.openOk THEN 0
    ELSE IF f.errAt > 0 THEN f.errAt - 1
    ELSE Len(f.lines)

\* C6: with files that cannot be opened or whose read fails (and no broken
\* gzip stream), the process is not brought down; at its end every worker
\* got as far as its own file let it, what was recorded is in the map and
\* the map was written.
C6_FileErrorStopsOnlyItsWorker ==
    (\A w \in Workers : file(w).gzOk) =>
        /\ exit # "panic"
        /\ exit = "done" =>
              /\ \A w \in Workers : nread[w] = Expect(file(w))
              /\ \A r \in hRecorded :
                    r[2] \in DOMAIN emails /\ r[3] \in emails[r[2]]
              /\ Written = DOMAIN emails

\* C7: the worker of a .gz file whose stream cannot be decompressed ends as
\* after a read error: no panic, and the process is not brought down.
C7_BadGzipLikeReadError ==
    \A w \in Workers :
        (file(w).gz /\ ~file(w).gzOk) =>
            /\ ~panicking[w]
            /\ exit # "panic"

\* C8: sender-anchored classification.  A worker between two lines has
\* executed ignoreCount++ once per pair whose sender misses the inclusion
\* pattern or whose recipient matches the exclusion pattern, matchCount++
\* once per other pair, and has recorded exactly those other pairs; the map
\* holds nothing but kept pairs; with one slot (no two workers at once) the
\* counters are exactly those numbers.
C8_SenderAnchored ==
    /\ \A w \in Workers : AtRest(w) =>
          LET ls == file(w).lines
              done == 1..nread[w]
          IN /\ hIgnored[w] = Cardinality({i \in done : Dropped(ls[i])})
             /\ hMatched[w] = Cardinality({i \in done : Kept(ls[i])})
             /\ { r \in hRecorded : r[1] = w } =
                   { <<w>> \o Folded(ls[i]) : i \in {j \in done : Kept(ls[j])} }
    /\ \A o \in DOMAIN emails : \A c \in emails[o] :
          \E w \in Workers : \E i \in 1..Len(file(w).lines) :
              Kept(file(w).lines[i]) /\ Folded(file(w).lines[i]) = <<o, c>>
    /\ threads = 1 =>
          /\ ignoreCount = SumTo(hIgnored, Len(args.files))
          /\ matchCount = SumTo(hMatched, Len(args.files))

\* a pair dropped for its sender, a pair kept, a pair dropped for its
\* recipient: the recipient's owner has no entry from it
C8_Witness ==
    /\ exit = "done"
    /\ args.files = <<fMixed, fAlice>> /\ args.ignore = ReSuffix(111)
    /\ hIgnored = <<1, 1>> /\ hMatched = <<1, 0>>
    /\ DOMAIN emails = {aT} /\ emails[aT] = {dT}

\* both addresses of the pair of a line match the inclusion pattern
BothMatch(line) ==
    LET m == FindSubmatch(line) IN
    m # <<>> /\ Match(args.email, m[1]) /\ Match(args.email, m[2])

\* C9 (as stated): in whichever program, a pair whose addresses both match
\* the inclusion pattern is discarded: the worker that went past its line
\* has not recorded it.
C9_BothMatchDiscarded ==
    \A w \in Workers : AtRest(w) =>
        \A i \in 1..nread[w] :
            BothMatch(file(w).lines[i]) =>
                /\ <<w>> \o Folded(file(w).lines[i]) \notin hRecorded
                /\ <<w>> \o FindSubmatch(file(w).lines[i]) \notin hRecorded

\* C9 (as amended): the symmetric programs discard exactly the pairs whose
\* addresses both match (ignoreCount is their number, the map has no entry
\* from them, every other pair is recorded under the address that matches,
\* or under the recipient when none does); the sender-anchored program
\* records such a pair under its sender unless the recipient matches the
\* exclusion pattern.
C9_BothMatchByMode ==
    /\ variant # "concurrent" =>
          /\ \A w \in Workers :
                LET ls == file(w).lines
                    done == 1..nread[w]
                    other == {i \in done : HasPair(ls[i]) /\ ~BothMatch(ls[i])}
                    owned(i) == IF Match(args.email, FindSubmatch(ls[i])[1])
                                THEN FindSubmatch(ls[i])
                                ELSE <<FindSubmatch(ls[i])[2], FindSubmatch(ls[i])[1]>>
                IN /\ hIgnored[w] = Cardinality({i \in done : BothMatch(ls[i])})
                   /\ hMatched[w] = Cardinality(other)
                   /\ { r \in hRecorded : r[1] = w } =
                         { <<w>> \o owned(i) : i \in other }
          /\ ignoreCount = SumTo(hIgnored, Len(args.files))
          /\ \A o \in DOMAIN emails : \A c \in emails[o] :
                \E r \in hRecorded : r[2] = o /\ r[3] = c
    /\ variant = "concurrent" =>
          \A w \in Workers : AtRest(w) =>
              \A i \in 1..nread[w] :
                  LET l == file(w).lines[i] IN
                  (BothMatch(l) /\ ~Match(args.ignore, FindSubmatch(l)[2])) =>
                      /\ <<w>> \o Folded(l) \in hRecorded
                      /\ Folded(l)[1] \in DOMAIN emails
                      /\ Folded(l)[2] \in emails[Folded(l)[1]]

\* a symmetric run went past a pair with one address of ours and a pair with
\* two: the first is in the map under our address, the second is not
C9_Witness ==
    /\ variant = "plain" /\ exit = "done"
    /\ args.files = <<fMixed, fPart>> /\ args.email = ReSuffix(116)
    /\ hIgnored[1] = 1 /\ hMatched[1] = 1 /\ ignoreCount = 1
    /\ aT \in DOMAIN emails
    /\ bO \in emails[aT] /\ dT \notin emails[aT]

C11_RecordIdempotent ==
    [][ \A w \in Workers :
          (pc[w] = "insert" /\ pc'[w] # "insert") =>
             LET o == MapLower(curFrom(w))
                 c == MapLower(curTo(w))
             IN /\ o \in DOMAIN emails' /\ c \in emails'[o]
                /\ (o \in DOMAIN emails /\ c \in emails[o]) =>
                      /\ emails' = emails
                      /\ fromCount' = fromCount
                /\ fromCount' = Cardinality(DOMAIN emails')
      ]_vars

\* one worker recorded the same pair twice and the other recorded it again:
\* one owner with one correspondent, counted once
C11_Witness ==
    /\ args.files = <<fCase, fShout>>
    /\ hMatched = <<2, 1>>
    /\ <<1, aT, bO>> \in hRecorded /\ <<2, aT, bO>> \in hRecorded
    /\ DOMAIN emails = {aT} /\ emails[aT] = {bO}
    /\ fromCount = 1

\* C12: the output holds at most one line per owner, a line being the owner
\* and then each of its correspondents once; nothing stays in the writer
\* between two lines; when the run is done every owner has its line.
C12_OneLinePerOwner ==
    /\ wbuf = <<>>
    /\ \A i, j \in 1..Len(out) : out[i][1] = out[j][1] => i = j
    /\ \A i \in 1..Len(out) :
          LET us == out[i][1] IN
          /\ us \in DOMAIN emails
          /\ Len(out[i]) = 1 + Cardinality(emails[us])
          /\ { out[i][k] : k \in 2..Len(out[i]) } = emails[us]
    /\ exit = "done" => { out[i][1] : i \in 1..Len(out) } = DOMAIN emails

\* a finished run with two owners, one of them with two correspondents
C12_Witness ==
    /\ exit = "done" /\ variant = "concurrent"
    /\ Len(out) = 2
    /\ \E i \in 1..2 : out[i][1] = aT /\ Len(out[i]) = 3
    /\ \E i \in 1..2 : out[i] = <<dT, bO>>

\* no worker has been started and no file opened
NoWorkBegun ==
    /\ spawned = 0 /\ sem = 0
    /\ \A w \in Workers : pc[w] = "idle" /\ inFile[w] = "nil" /\ nread[w] = 0
    /\ emails = NoEmails /\ out = <<>>

\* C13: a run ended by log.Fatal has begun no work, and a run whose -email
\* or -ignore pattern does not compile, or whose -out cannot be created,
\* never gets past the start of main.
C13_FatalBeforeWork ==
    /\ exit = "fatal" => NoWorkBegun
    /\ (args.email.kind = "bad" \/ args.ignore.kind = "bad" \/ ~args.outOk) =>
          /\ mainpc \in {"compileIgnore", "compileEmail", "create"}
          /\ exit \in {"running", "fatal"}
          /\ NoWorkBegun

\* both patterns compiled, os.Create failed, the run ended
C13_Witness ==
    /\ exit = "fatal" /\ mainpc = "create" /\ ~args.outOk
    /\ emailRegex = args.email /\ ignoreRegex = args.ignore
    /\ Len(args.files) > 0

\* C14 (as stated): no step makes lineCount, matchCount, ignoreCount or
\* fromCount smaller.
C14_CountersMonotonic ==
    [][ /\ lineCount' >= lineCount
        /\ matchCount' >= matchCount
        /\ ignoreCount' >= ignoreCount
        /\ fromCount' >= fromCount
      ]_vars

\* a worker that has read a counter and not yet written it back
MidUpdate(w) == pc[w] \in {"ignStore", "matchStore", "lineStore"}

\* C15 (as stated): at most one worker at a time is in the middle of the
\* update of a counter, and in a finished run matchCount is the number of
\* pairs recorded and ignoreCount the number of pairs discarded, over all
\* files.
C15_CountersExclusive ==
    /\ Cardinality({w \in Workers : MidUpdate(w)}) <= 1
    /\ exit = "done" =>
          /\ matchCount = SumTo(hMatched, Len(args.files))
          /\ ignoreCount = SumTo(hIgnored, Len(args.files))

\* C16: every step keeps every owner of the map and every correspondent of
\* every owner, and the steps of the output phase leave the map as it is.
C16_MapOnlyGrows ==
    [][ /\ \A o \in DOMAIN emails :
              o \in DOMAIN emails' /\ emails[o] \subseteq emails'[o]
        /\ mainpc \in {"write", "done"} => emails' = emails
      ]_vars

\* the output phase under way after an owner's set grew to two
\* correspondents: the line of one owner written, that of the other not yet
C16_Witness ==
    /\ mainpc = "write" /\ exit = "running"
    /\ DOMAIN emails = {aT, dT} /\ emails[aT] = {bO, cO}
    /\ out = << <<dT, bO>> >>

\* C17: the worker that holds writeLock is between the lookup and the
\* insert, and nowhere else (not reading, closing, releasing its slot, ended
\* or dying); the next step of the holder gives the lock back.
C17_LockOnlyAroundInsert ==
    [][ /\ writeLock' # 0 => pc'[writeLock'] = "insert"
        /\ \A w \in Workers :
              /\ pc'[w] = "insert" => writeLock' = w
              /\ (writeLock = w /\ pc'[w] # pc[w]) =>
                    writeLock' = 0 /\ pc'[w] = "matchLoad"
      ]_vars

\* one worker holds the lock for its insert while the other waits for it
C17_Witness ==
    /\ writeLock = 1 /\ pc[1] = "insert"
    /\ pc[2] = "lock"
    /\ exit = "running"

\* no byte of s is one of 'A'..'Z'
NoUpper(s) == \A k \in 1..Len(s) : s[k] < 65 \/ s[k] > 90

\* the pair of the line passes the two patterns as it stands in the line
KeptRaw(line) ==
    LET m == FindSubmatch(line) IN
    /\ m # <<>>
    /\ Match(args.email, m[1])
    /\ ~Match(args.ignore, m[2])

\* C18: toLower moves 'A'..'Z' to 'a'..'z' and nothing else; no owner and no
\* correspondent of the map has an upper-case letter; a line whose pair
\* passes the patterns as written is recorded under the folded sender with
\* the folded recipient, and the workers' counts are those of the patterns
\* applied to the addresses as written.
C18_FoldedAfterMatching ==
    /\ \A r \in 0..127 :
          toLower(r) = IF r \in 65..90 THEN r + 32 ELSE r
    /\ \A o \in DOMAIN emails :
          NoUpper(o) /\ \A c \in emails[o] : NoUpper(c)
    /\ \A w \in Workers : AtRest(w) =>
          LET ls == file(w).lines
              seen == { i \in 1..nread[w] : HasPair(ls[i]) }
          IN /\ \A i \in seen : KeptRaw(ls[i]) =>
                   LET m == FindSubmatch(ls[i]) IN
                   /\ MapLower(m[1]) \in DOMAIN emails
                   /\ MapLower(m[2]) \in emails[MapLower(m[1])]
             /\ hMatched[w] = Cardinality({ i \in seen : KeptRaw(ls[i]) })
             /\ hIgnored[w] = Cardinality({ i \in seen : ~KeptRaw(ls[i]) })

\* -email T$ -ignore O$: three senders written aT or AT were kept although
\* the folded sender does not end in T, a recipient written bO was dropped
\* although bo was kept, and all that was kept is one entry
C18_Witness ==
    /\ exit = "done"
    /\ args.files = <<fCase, fShout>>
    /\ ~Match(emailRegex, aT) /\ ~Match(ignoreRegex, bO) /\ Match(ignoreRegex, bU)
    /\ hMatched = <<2, 1>> /\ hIgnored = <<0, 1>>
    /\ emails = [o \in {aT} |-> {bO}]

\* C19 (as stated): in the programs without goroutines a file is left at its
\* first read that fails otherwise than by io.EOF (a file that could not be
\* opened fails at its first read), and no file brings the process down, so
\* the run comes to its output.
C19_SeqAbandonsFailedFile ==
    /\ \A i \in Workers : hReadErr[i] <= 1
    /\ exit # "panic"

\* C20: a worker reads the newline-terminated lines of its file one by one
\* and in file order, and never more of them than the file has; the line it
\* is working on is the last one it read; between two lines it has disposed
\* once of each pair read so far; and every pair it recorded is the pair of
\* a terminated line it has read, so the bytes that come with io.EOF are
\* never parsed, recorded or counted.
C20_TailNotProcessed ==
    [][ \A w \in Workers :
          /\ nread'[w] <= Len(file(w).lines)
          /\ nread'[w] \in {nread[w], nread[w] + 1}
          /\ (pc[w] = "read" /\ ~AtRest(w)') =>
                nread'[w] = nread[w] + 1 /\ curLine(w)' = file(w).lines[nread'[w]]
          /\ nread'[w] # nread[w] => pc[w] = "read"
          /\ AtRest(w)' =>
                hMatched'[w] + hIgnored'[w] =
                   Cardinality({ i \in 1..nread'[w] : HasPair(file(w).lines[i]) })
          /\ \A r \in hRecorded' : r[1] = w =>
                \E i \in 1..nread'[w] :
                   /\ HasPair(file(w).lines[i])
                   /\ Folded(file(w).lines[i]) = <<r[2], r[3]>>
      ]_vars

\* the worker of a file that ends in a pair without a newline has ended:
\* its one terminated line is recorded, the last one is nowhere
C20_Witness ==
    /\ exit = "done" /\ args.files = <<fAlice, fCarol>>
    /\ pc[2] = "done" /\ nread[2] = 1 /\ file(2).tail = lnDB
    /\ hMatched[2] = 1 /\ hIgnored[2] = 0
    /\ <<2, aT, cO>> \in hRecorded
    /\ dT \notin DOMAIN emails

====
